---- MODULE Spec2Model ----
(***************************************************************************)
(* A model of PyBullet's Client (src/PyBullet/base.py): construction from  *)
(* the global settings file and a caller override, the domain methods that *)
(* delegate to Authenticator.send_request, and the two-phase upload_file.  *)
(* The pybullet.auth module is not part of the sources; the OAuth          *)
(* authenticator's send_request is modelled from the specification.        *)
(*                                                                         *)
(* Python values are represented as follows.                               *)
(*   - a flat dict of strings (kwargs, form data, the auth sub-mapping)    *)
(*     is a set of <<key, value>> pairs with at most one pair per key;     *)
(*   - a settings mapping is a record [has, auth, x]: has is the set of    *)
(*     top-level keys present, auth and x the values of the keys "auth"    *)
(*     and "x" (the empty dict and 0 when the key is absent);              *)
(*   - an exception is the name of what was raised.                        *)
(* Records list their fields in the order TLC keeps them (that of the      *)
(* names' first occurrence in the module), and every constant set of       *)
(* several elements has a name.                                            *)
(***************************************************************************)
EXTENDS Integers, Sequences, FiniteSets, TLC

VARIABLES
    files,      \* the file system: path -> [exists, content]
    client,     \* the Client object under construction / constructed
    calls,      \* log of the Client's calls of self.auth.send_request
    streams,    \* file streams: [owner, state, name]
    ops,        \* log of the Client method invocations and how they ended
    token,      \* OAuthAuthenticator: the access token held
    http,       \* OAuthAuthenticator: log of the HTTP exchanges
    results     \* OAuthAuthenticator: how each send_request ended

vars == <<files, client, calls, streams, ops, token, http, results>>

----------------------------------------------------------------------------
(* Bounds *)

MaxOps == 2         \* Client method invocations in one behaviour
MaxRequests == 2    \* OAuthAuthenticator.send_request calls in one behaviour

----------------------------------------------------------------------------
(* Flat dicts as sets of <<key, value>> pairs *)

KeysOf(d) == {p[1] : p \in d}

Get(d, k) == (CHOOSE p \in d : p[1] = k)[2]

\* d[k] = v
SetItem(d, k, v) == {p \in d : p[1] # k} \cup {<<k, v>>}

----------------------------------------------------------------------------
(* Settings *)

GLOBAL_SETTINGS_FILE == "~/.pybulletrc"

AuthTypes == {"basic", "oauth", "digest"}
Tokens == {"A", "B"}

AuthMaps ==
    { t \cup k : t \in {{}} \cup {{<<"type", v>>} : v \in AuthTypes},
                 k \in {{}} \cup {{<<"token", v>>} : v \in Tokens} }

EmptyMapping == [has |-> {}, auth |-> {}, x |-> 0]

Mappings ==
    { [has  |-> h,
       auth |-> IF "auth" \in h THEN a ELSE {},
       x    |-> IF "x" \in h THEN n ELSE 0] :
        h \in SUBSET {"auth", "x"}, a \in AuthMaps, n \in {1, 2} }

Paths == {GLOBAL_SETTINGS_FILE, "settings.json"}

\* What a caller may pass as the settings parameter of Client(...).
NoSettings == [kind |-> "none", dict |-> EmptyMapping, path |-> ""]

SettingsInputs ==
    {NoSettings}
    \cup { [kind |-> "dict", dict |-> m, path |-> ""] : m \in Mappings }
    \cup { [kind |-> "path", dict |-> EmptyMapping, path |-> p] :
             p \in {"", "settings.json"} }

\* Python truth value of the settings parameter: None, {} and "" are false.
Truthy(s) ==
    CASE s.kind = "none" -> FALSE
      [] s.kind = "dict" -> s.dict.has # {}
      [] s.kind = "path" -> s.path # ""

\* os.path.exists
PathExists(p) == p \in DOMAIN files /\ files[p].exists

\* Client._load_config: the parsed JSON of the file (the global file when no
\* path is given).  open() raises IOError when the file does not exist.
LoadConfigPath(p) == IF p = "" THEN GLOBAL_SETTINGS_FILE ELSE p

LoadConfigRaises(p) == ~PathExists(LoadConfigPath(p))

LoadConfig(p) == files[LoadConfigPath(p)].content

\* Deep variant of dict.update that also merges inside "auth".
DictUpdateNested(base, over) ==
    [has  |-> base.has \cup over.has,
     auth |-> IF "auth" \in over.has
              THEN {p \in base.auth : p[1] \notin KeysOf(over.auth)} \cup over.auth
              ELSE base.auth,
     x    |-> IF "x" \in over.has THEN over.x ELSE base.x]

\* self.settings.update(settings): every top-level key of the override
\* replaces the base's value of that key as a whole.
DictUpdate(base, over) ==
    [has  |-> base.has \cup over.has,
     auth |-> IF "auth" \in over.has THEN over.auth ELSE base.auth,
     x    |-> IF "x" \in over.has THEN over.x ELSE base.x]

\* Variant of the authenticator selection that falls back to basic.
SelectAuthDefaultBasic(settings) ==
    IF "auth" \notin settings.has THEN [auth |-> "none", raises |-> "KeyError"]
    ELSE IF "type" \notin KeysOf(settings.auth)
         THEN [auth |-> "none", raises |-> "KeyError"]
    ELSE IF Get(settings.auth, "type") = "oauth"
         THEN [auth |-> "oauth", raises |-> ""]
    ELSE [auth |-> "basic", raises |-> ""]

\* Lines 44-50: self.settings['auth'], auth_settings['type'] and the choice
\* of the Authenticator variant.
SelectAuth(settings) ==
    IF "auth" \notin settings.has THEN [auth |-> "none", raises |-> "KeyError"]
    ELSE IF "type" \notin KeysOf(settings.auth)
         THEN [auth |-> "none", raises |-> "KeyError"]
    ELSE IF Get(settings.auth, "type") = "basic"
         THEN [auth |-> "basic", raises |-> ""]
    ELSE IF Get(settings.auth, "type") = "oauth"
         THEN [auth |-> "oauth", raises |-> ""]
    ELSE [auth |-> "none", raises |-> "Invalid authentication scheme"]

NoClient ==
    [auth |-> "none", base |-> EmptyMapping, over |-> EmptyMapping,
     settings |-> EmptyMapping, state |-> "none", raised |-> "",
     input |-> NoSettings, globalExists |-> FALSE, updated |-> FALSE]

\* Variant of the first check that only looks at whether a parameter was passed.
NoSettingsGivenIsNone(s) == ~PathExists(GLOBAL_SETTINGS_FILE) /\ s.kind = "none"

\* Line 30: not os.path.exists(GLOBAL_SETTINGS_FILE) and not settings
NoSettingsGiven(s) == ~PathExists(GLOBAL_SETTINGS_FILE) /\ ~Truthy(s)

\* Client.__init__(settings), as the object it leaves behind.
NewClient(s) ==
    LET g    == PathExists(GLOBAL_SETTINGS_FILE)
        base == IF g THEN LoadConfig("") ELSE EmptyMapping
        start == [NoClient EXCEPT !.input = s, !.globalExists = g]
    IN  IF NoSettingsGiven(s)
        THEN [start EXCEPT !.state = "failed", !.raised = "No settings given"]
        ELSE IF Truthy(s) /\ s.kind = "path" /\ LoadConfigRaises(s.path)
        THEN [start EXCEPT !.state = "failed", !.raised = "IOError",
                           !.base = base, !.settings = base]
        ELSE LET over   == IF s.kind = "path" THEN LoadConfig(s.path) ELSE s.dict
                 merged == IF Truthy(s) THEN DictUpdate(base, over) ELSE base
                 sel    == SelectAuth(merged)
                 loaded == [start EXCEPT !.base = base,
                                         !.over = IF Truthy(s) THEN over ELSE EmptyMapping,
                                         !.updated = Truthy(s),
                                         !.settings = merged]
             IN  IF sel.raises # ""
                 THEN [loaded EXCEPT !.state = "failed", !.raised = sel.raises]
                 ELSE [loaded EXCEPT !.state = "constructed", !.auth = sel.auth]

\* One Client is constructed in a behaviour of the configuration model.
Construct(s) ==
    /\ client.state = "none"
    /\ client' = NewClient(s)
    /\ UNCHANGED <<files, calls, streams, ops, token, http, results>>

FileStates ==
    {[exists |-> FALSE, content |-> EmptyMapping]}
    \cup {[exists |-> TRUE, content |-> m] : m \in Mappings}

InitConfig ==
    /\ files \in [Paths -> FileStates]
    /\ client = NoClient
    /\ calls = <<>>
    /\ streams = <<>>
    /\ ops = <<>>
    /\ token = 0
    /\ http = <<>>
    /\ results = <<>>

NextConfig == \E s \in SettingsInputs : Construct(s)

SpecConfig == InitConfig /\ [][NextConfig]_vars

----------------------------------------------------------------------------
(* Requests and responses at the Client / Authenticator boundary *)

BASE_URL     == "https://api.pushbullet.com/v2"
CONTACTS_URL == BASE_URL \o "/contacts"
DEVICE_URL   == BASE_URL \o "/devices"
ME_URL       == BASE_URL \o "/users/me"
PUSH_URL     == BASE_URL \o "/pushes"
UPLOAD_URL   == BASE_URL \o "/upload-request"

\* The data argument of send_request: absent, a dict, or a string.
NoData == [type |-> "none", fields |-> {}]
DictData(d) == [type |-> "dict", fields |-> d]

\* json.dumps(d): a str holding the JSON text of d (named by the dict it encodes).
JsonDumps(d) == [type |-> "str", fields |-> d]

\* The arguments of one call of self.auth.send_request; skip_auth defaults
\* to False, the others to None.
Request(url, method, skip_auth, headers, params, data, attached) ==
    [files |-> attached, url |-> url, method |-> method,
     skip_auth |-> skip_auth, headers |-> headers, params |-> params, data |-> data]

\* A parsed response: the keys it has, and the values of upload_url and data.
Response(keys, url, data) == [data |-> data, keys |-> keys, upload_url |-> url]

NoResponse == Response({}, "", {})

\* How a call of send_request can end: it returns a response or raises.
Returned(r) == [raised |-> "", resp |-> r]
Raised(e) == [raised |-> e, resp |-> NoResponse]

Failures == {"RequestError"}

PlainOutcomes == {Raised(e) : e \in Failures} \cup {Returned(NoResponse)}

\* Outcomes of a call whose response the method subscripts with key k.
KeyedOutcomes(k) == PlainOutcomes \cup {Returned(Response({k}, "", {}))}

DevicesOutcomes == KeyedOutcomes("devices")
PushesOutcomes == KeyedOutcomes("pushes")

\* Upload tickets: one-time storage URLs with the form fields they require.
Tickets ==
    { Response({"upload_url", "data", "file_name"},
               "https://storage.example/slot-1", {<<"signature", "s1">>}),
      Response({"upload_url", "data", "file_name"},
               "https://storage.example/slot-2", {<<"signature", "s2">>}) }

UploadOutcomes == PlainOutcomes \cup {Returned(t) : t \in Tickets}

\* A call of send_request as logged: the invocation it belongs to, its
\* arguments, and how it ended.
Sent(op, req, out) == [raised |-> out.raised, resp |-> out.resp, op |-> op, req |-> req]

\* What a method hands back to its caller.
ReturnsNone == [kind |-> "None", resp |-> NoResponse, key |-> ""]
ReturnsResp(r) == [kind |-> "resp", resp |-> r, key |-> ""]
ReturnsItem(r, k) == [kind |-> "item", resp |-> r, key |-> k]

\* The record of one invocation of a Client method.
Invocation(m, arg, kwargs, raised, value, stream, opened) ==
    [raised |-> raised, method |-> m, arg |-> arg, kwargs |-> kwargs,
     value |-> value, stream |-> stream, opened |-> opened,
     outcome |-> IF raised = "" THEN "returned" ELSE "raised"]

\* How a method that made one call ends: the call's failure propagates; a
\* subscript of a key the response lacks raises KeyError.
\* pick: "" to return the response, "None" to return nothing, else the key.
EndOf(out, pick) ==
    IF out.raised # "" THEN [raised |-> out.raised, value |-> ReturnsNone]
    ELSE IF pick = "" THEN [raised |-> "", value |-> ReturnsResp(out.resp)]
    ELSE IF pick = "None" THEN [raised |-> "", value |-> ReturnsNone]
    ELSE IF pick \in out.resp.keys
         THEN [raised |-> "", value |-> ReturnsItem(out.resp, pick)]
    ELSE [raised |-> "KeyError", value |-> ReturnsNone]

\* Variant of a delegating method that retries once when the call fails and
\* returns an empty result if the retry fails too.
DelegateRetrying(m, arg, kwargs, req, outs, pick) ==
    /\ Len(ops) < MaxOps
    /\ client.state = "constructed"
    /\ \E out \in outs, again \in outs :
          LET n == Len(ops) + 1
              final == IF out.raised # "" THEN again ELSE out
              e == IF final.raised # ""
                   THEN [raised |-> "", value |-> ReturnsNone]
                   ELSE EndOf(final, pick)
          IN  /\ calls' = IF out.raised # ""
                          THEN calls \o <<Sent(n, req, out), Sent(n, req, again)>>
                          ELSE Append(calls, Sent(n, req, out))
              /\ ops' = Append(ops, Invocation(m, arg, kwargs, e.raised, e.value, 0, FALSE))
    /\ UNCHANGED <<files, client, streams, token, http, results>>

\* The shape shared by every domain method but upload_file: one call of
\* self.auth.send_request, whose result (or a subscript of it) is returned.
Delegate(m, arg, kwargs, req, outs, pick) ==
    /\ Len(ops) < MaxOps
    /\ client.state = "constructed"
    /\ \E out \in outs :
          LET n == Len(ops) + 1
              e == EndOf(out, pick)
          IN  /\ calls' = Append(calls, Sent(n, req, out))
              /\ ops' = Append(ops, Invocation(m, arg, kwargs, e.raised, e.value, 0, FALSE))
    /\ UNCHANGED <<files, client, streams, token, http, results>>

----------------------------------------------------------------------------
(* The domain methods *)

Idens == {"iden1"}

\* Keyword arguments of the update methods.
UpdateKwargs == {{<<"nickname", "n">>}}

PushTypes == {"note", "link", "address", "list", "file"}

\* Keyword arguments of push; a caller may name any keyword, type included.
PushKwargs ==
    { {<<"title", "t">>, <<"body", "b">>},
      {<<"title", "t">>, <<"type", "link">>} }

Devices ==
    Delegate("devices", "", {},
             Request(DEVICE_URL, "GET", FALSE, {}, {}, NoData, {}),
             DevicesOutcomes, "devices")

CreateDevice(name, device_type) ==
    Delegate("create_device", name, {},
             Request(DEVICE_URL, "POST", FALSE, {}, {},
                     DictData({<<"type", device_type>>, <<"nickname", name>>}), {}),
             PlainOutcomes, "")

UpdateDevice(device_iden, kwargs) ==
    Delegate("update_device", device_iden, kwargs,
             Request(DEVICE_URL \o "/" \o device_iden, "POST", FALSE, {}, {},
                     DictData(kwargs), {}),
             PlainOutcomes, "")

DeleteDevice(device_iden) ==
    Delegate("delete_device", device_iden, {},
             Request(DEVICE_URL \o "/" \o device_iden, "DELETE", FALSE, {}, {},
                     NoData, {}),
             PlainOutcomes, "None")

\* Variant of the push payload that keeps a type the caller passed.
PushPayloadSetDefault(push_type, kwargs) ==
    IF "type" \in KeysOf(kwargs) THEN kwargs ELSE kwargs \cup {<<"type", push_type>>}

\* kwargs['type'] = push_type
PushPayload(push_type, kwargs) == SetItem(kwargs, "type", push_type)

Push(push_type, kwargs) ==
    Delegate("push", push_type, kwargs,
             Request(PUSH_URL, "POST", FALSE, {}, {},
                     DictData(PushPayload(push_type, kwargs)), {}),
             PlainOutcomes, "")

PushHistory(modified_timestamp) ==
    Delegate("push_history", modified_timestamp, {},
             Request(PUSH_URL, "GET", FALSE, {},
                     {<<"modified_after", modified_timestamp>>}, NoData, {}),
             PushesOutcomes, "pushes")

DismissPush(push_iden) ==
    Delegate("dismiss_push", push_iden, {},
             Request(PUSH_URL \o "/" \o push_iden, "POST", FALSE, {}, {},
                     DictData({<<"dismissed", "true">>}), {}),
             PlainOutcomes, "")

DeletePush(push_iden) ==
    Delegate("delete_push", push_iden, {},
             Request(PUSH_URL \o "/" \o push_iden, "DELETE", FALSE, {}, {},
                     NoData, {}),
             PlainOutcomes, "None")

\* Variant of contacts that asks for no authentication.
ContactsSkippingAuth ==
    Delegate("contacts", "", {},
             Request(CONTACTS_URL, "GET", TRUE, {}, {}, NoData, {}),
             PlainOutcomes, "")

Contacts ==
    Delegate("contacts", "", {},
             Request(CONTACTS_URL, "GET", FALSE, {}, {}, NoData, {}),
             PlainOutcomes, "")

CreateContact(name, email) ==
    Delegate("create_contact", name, {},
             Request(CONTACTS_URL, "POST", FALSE, {}, {},
                     DictData({<<"name", name>>, <<"email", email>>}), {}),
             PlainOutcomes, "")

UpdateContact(contact_iden, kwargs) ==
    Delegate("update_contact", contact_iden, kwargs,
             Request(CONTACTS_URL \o "/" \o contact_iden, "POST", FALSE, {}, {},
                     DictData(kwargs), {}),
             PlainOutcomes, "")

DeleteContact(contact_iden) ==
    Delegate("delete_contact", contact_iden, {},
             Request(CONTACTS_URL \o "/" \o contact_iden, "DELETE", FALSE, {}, {},
                     NoData, {}),
             PlainOutcomes, "None")

Me ==
    Delegate("me", "", {},
             Request(ME_URL, "GET", FALSE, {}, {}, NoData, {}),
             PlainOutcomes, "")

UpdateMe(kwargs) ==
    Delegate("update_me", "", kwargs,
             Request(ME_URL, "POST", FALSE,
                     {<<"content-type", "application/json">>}, {},
                     JsonDumps(kwargs), {}),
             PlainOutcomes, "")

----------------------------------------------------------------------------
(* upload_file *)

PngNames == {"photo.png", "pic.png"}

\* mimetypes.guess_type(name): a (type, encoding) pair, None where unknown.
GuessType(name) ==
    IF name \in PngNames THEN <<"image/png", "None">>
    ELSE IF name = "notes.txt" THEN <<"text/plain", "None">>
    ELSE <<"None", "None">>

\* What a caller may pass as inputfile: a path, or an open file handle (a
\* stream of its own).  None is written "" for filename and file_type.
UploadInputs ==
    { [kind |-> "path", path |-> p, stream |-> 0] : p \in {"photo.png", "missing.bin"} }
    \cup { [kind |-> "handle", path |-> "", stream |-> 1] }

UploadNames == {<<"", "">>, <<"pic.png", "image/png">>}

\* The keys of the ticket that upload_file subscripts.
TicketKeys == {"upload_url", "data"}

\* Lines 240-244: the upload-request call.
PhaseA(name, mime_type) ==
    Request(UPLOAD_URL, "POST", FALSE, {}, {},
            DictData({<<"file_name", name>>, <<"file_type", mime_type>>}), {})

\* Variant of the file submission that leaves skip_auth at its default.
PhaseBAuthenticated(resp, file_handle) ==
    Request(resp.upload_url, "POST", FALSE, {}, {},
            DictData(resp.data), {<<"file", file_handle>>})

\* Lines 246-254: the submission of the file to the ticket's upload_url.
PhaseB(resp, file_handle) ==
    Request(resp.upload_url, "POST", TRUE, {}, {},
            DictData(resp.data), {<<"file", file_handle>>})

\* Variant in which a failure of the upload-request call is caught.
PhaseAFailureIgnored(outA) == FALSE

\* An exception of the upload-request call leaves upload_file at line 240.
PhaseAFailurePropagates(outA) == outA.raised # ""

\* upload_file never closes the stream it opens.  Once the call is over the
\* file object is garbage, and whether the interpreter has finalised (and so
\* closed) it is not decided by this code: gc is either outcome.
StreamAfterUpload(path, gc) ==
    [state |-> IF gc THEN "closed" ELSE "open", name |-> path, owner |-> "library"]

UploadFile(input, filename, file_type) ==
    /\ Len(ops) < MaxOps
    /\ client.state = "constructed"
    /\ IF input.kind = "path" /\ ~PathExists(input.path)
       THEN \* open(inputfile, 'rb') raises
            /\ ops' = Append(ops, Invocation("upload_file", input.path, {},
                                             "IOError", ReturnsNone, 0, FALSE))
            /\ UNCHANGED <<calls, streams>>
       ELSE \E outA \in UploadOutcomes, outB \in PlainOutcomes, gc \in BOOLEAN :
            LET n      == Len(ops) + 1
                opened == input.kind = "path"
                file_handle == IF opened THEN Len(streams) + 1 ELSE input.stream
                handle_name == IF opened THEN input.path ELSE streams[file_handle].name
                name      == IF filename # "" THEN filename ELSE handle_name
                mime_type == IF file_type # "" THEN file_type ELSE GuessType(name)
                callA == Sent(n, PhaseA(name, mime_type), outA)
                callB == Sent(n, PhaseB(outA.resp, file_handle), outB)
                \* resp['upload_url'] and resp['data'] are evaluated before the
                \* second call is made
                ticketOk == TicketKeys \subseteq outA.resp.keys
                end == IF PhaseAFailurePropagates(outA)
                       THEN [raised |-> outA.raised, sent |-> <<callA>>]
                       ELSE IF ~ticketOk
                       THEN [raised |-> "KeyError", sent |-> <<callA>>]
                       ELSE [raised |-> outB.raised, sent |-> <<callA, callB>>]
            IN  /\ calls' = calls \o end.sent
                /\ streams' = IF opened
                              THEN Append(streams, StreamAfterUpload(input.path, gc))
                              ELSE streams
                /\ ops' = Append(ops,
                       Invocation("upload_file",
                                  IF opened THEN input.path ELSE "",
                                  {<<"filename", filename>>, <<"file_type", file_type>>},
                                  end.raised,
                                  IF end.raised = "" THEN ReturnsResp(outA.resp)
                                  ELSE ReturnsNone,
                                  file_handle, opened))
    /\ UNCHANGED <<files, client, token, http, results>>

----------------------------------------------------------------------------
(* The Client's operations on a constructed client *)

\* A client constructed from an override naming the authenticator, no global
\* settings file present; the caller holds one open file of its own.
ClientSettings(a) ==
    [kind |-> "dict",
     dict |-> [has |-> {"auth"}, auth |-> {<<"type", a>>, <<"token", "A">>}, x |-> 0],
     path |-> ""]

Init ==
    /\ files = [p \in {"photo.png"} |-> [exists |-> TRUE, content |-> EmptyMapping]]
    /\ client \in {NewClient(ClientSettings(a)) : a \in {"basic", "oauth"}}
    /\ calls = <<>>
    /\ streams = <<[state |-> "open", name |-> "notes.txt", owner |-> "caller"]>>
    /\ ops = <<>>
    /\ token = 0
    /\ http = <<>>
    /\ results = <<>>

Next ==
    \/ Devices
    \/ \E t \in {"android"} : CreateDevice("phone", t)
    \/ \E i \in Idens, kw \in UpdateKwargs : UpdateDevice(i, kw)
    \/ \E i \in Idens : DeleteDevice(i)
    \/ \E t \in PushTypes, kw \in PushKwargs : Push(t, kw)
    \/ \E ts \in {"1400000000"} : PushHistory(ts)
    \/ \E i \in Idens : DismissPush(i)
    \/ \E i \in Idens : DeletePush(i)
    \/ Contacts
    \/ \E e \in {"ann@example.org"} : CreateContact("ann", e)
    \/ \E i \in Idens, kw \in UpdateKwargs : UpdateContact(i, kw)
    \/ \E i \in Idens : DeleteContact(i)
    \/ Me
    \/ \E kw \in UpdateKwargs : UpdateMe(kw)
    \/ \E input \in UploadInputs, nt \in UploadNames : UploadFile(input, nt[1], nt[2])

Spec == Init /\ [][Next]_vars

----------------------------------------------------------------------------
(* OAuthAuthenticator.send_request.  pybullet.auth is not among the        *)
(* sources: this part follows the specification's section 4.3.  Access     *)
(* tokens are numbered in the order the token endpoint issues them; 0 is   *)
(* "no access token held".                                                 *)

Statuses == {200, 401, 500}

\* What the network answers during one send_request: whether the token
\* endpoint accepts the initial exchange and the refresh, and the statuses of
\* the request and of its retry.
Environments ==
    [exchange : BOOLEAN, first : Statuses, refresh : BOOLEAN, retry : Statuses]

Exchange(kind, url, bearer, status) ==
    [kind |-> kind, url |-> url, bearer |-> bearer, status |-> status]

TOKEN_URL == "https://api.pushbullet.com/oauth2/token"

ErrorOf(status) ==
    IF status = 200 THEN "" ELSE IF status = 401 THEN "AuthenticationError"
    ELSE "RequestError"

\* Variant that refreshes and retries a second time when the retry gets a 401.
RefreshAndRetryTwice(tok, url, env) ==
    IF ~env.refresh
    THEN [token |-> tok,
          http |-> <<Exchange("refresh", TOKEN_URL, 0, 401)>>,
          raised |-> "AuthenticationError"]
    ELSE IF env.retry # 401
    THEN [token |-> tok + 1,
          http |-> <<Exchange("refresh", TOKEN_URL, 0, 200),
                     Exchange("request", url, tok + 1, env.retry)>>,
          raised |-> ErrorOf(env.retry)]
    ELSE [token |-> tok + 2,
          http |-> <<Exchange("refresh", TOKEN_URL, 0, 200),
                     Exchange("request", url, tok + 1, 401),
                     Exchange("refresh", TOKEN_URL, 0, 200),
                     Exchange("request", url, tok + 2, 200)>>,
          raised |-> ""]

\* After a 401: one refresh and one retry; whatever the retry gets is final.
RefreshAndRetry(tok, url, env) ==
    IF ~env.refresh
    THEN [token |-> tok,
          http |-> <<Exchange("refresh", TOKEN_URL, 0, 401)>>,
          raised |-> "AuthenticationError"]
    ELSE [token |-> tok + 1,
          http |-> <<Exchange("refresh", TOKEN_URL, 0, 200),
                     Exchange("request", url, tok + 1, env.retry)>>,
          raised |-> ErrorOf(env.retry)]

\* Steps 2 and 3: the request with the current token, and the answer to a 401.
RequestWithToken(tok, url, env) ==
    LET first == <<Exchange("request", url, tok, env.first)>>
    IN  IF env.first = 401
        THEN LET r == RefreshAndRetry(tok, url, env)
             IN  [r EXCEPT !.http = first \o r.http]
        ELSE [token |-> tok, http |-> first, raised |-> ErrorOf(env.first)]

\* Step 1, then steps 2 and 3.
OAuthExchanges(tok, url, env) ==
    IF tok = 0
    THEN IF ~env.exchange
         THEN [token |-> 0,
               http |-> <<Exchange("exchange", TOKEN_URL, 0, 401)>>,
               raised |-> "AuthenticationError"]
         ELSE LET r == RequestWithToken(1, url, env)
              IN  [r EXCEPT !.http = <<Exchange("exchange", TOKEN_URL, 0, 200)>> \o r.http]
    ELSE RequestWithToken(tok, url, env)

OAuthSendRequest(url) ==
    /\ Len(results) < MaxRequests
    /\ \E env \in Environments :
          LET r == OAuthExchanges(token, url, env)
          IN  /\ http' = http \o r.http
              /\ token' = r.token
              /\ results' = Append(results,
                     [raised |-> r.raised, start |-> Len(http) + 1, url |-> url,
                      held |-> token, count |-> Len(r.http)])
    /\ UNCHANGED <<files, client, calls, streams, ops>>

\* An OAuthAuthenticator built from a refresh token alone, or from an initial
\* access token (token 1).
InitOAuth ==
    /\ files = [p \in {"photo.png"} |-> [exists |-> TRUE, content |-> EmptyMapping]]
    /\ client = NewClient(ClientSettings("oauth"))
    /\ calls = <<>>
    /\ streams = <<>>
    /\ ops = <<>>
    /\ token \in {0, 1}
    /\ http = <<>>
    /\ results = <<>>

RequestUrls == {DEVICE_URL, PUSH_URL}

NextOAuth == \E url \in RequestUrls : OAuthSendRequest(url)

SpecOAuth == InitOAuth /\ [][NextOAuth]_vars

----------------------------------------------------------------------------
(* Claims about construction, checked under SpecConfig *)

FailedNoSettings ==
    /\ client.state = "failed"
    /\ client.raised = "No settings given"
    /\ client.auth = "none"
    /\ calls = <<>>

\* The construction went on from an empty base: it did not stop at the
\* 'No settings given' check, and once the override is loaded the settings
\* are the override's alone.
ProceedsFromEmptyBase ==
    /\ client.raised # "No settings given"
    /\ client.base = EmptyMapping
    /\ client.raised # "IOError" =>
          (client.updated /\ client.settings = client.over)

\* C5, as stated: with no global file, construction fails with the
\* configuration error when no override is passed, and proceeds from an
\* empty base whenever an override is passed.
C5_AnyOverrideProceeds ==
    (client.state # "none" /\ ~client.globalExists) =>
        /\ client.input.kind = "none" => FailedNoSettings
        /\ client.input.kind # "none" => ProceedsFromEmptyBase

\* C5, amended: with no global file, construction fails with 'No settings
\* given' (no Authenticator, no request) when the override is missing or
\* empty (None, {} or ''), and proceeds from an empty base when a non-empty
\* override is passed.
C5_NonEmptyOverrideProceeds ==
    (client.state # "none" /\ ~client.globalExists) =>
        /\ ~Truthy(client.input) => FailedNoSettings
        /\ Truthy(client.input) => ProceedsFromEmptyBase

\* No global file, a non-empty override, and a client constructed from it.
C5_Witness ==
    /\ client.state = "constructed"
    /\ ~client.globalExists
    /\ Truthy(client.input)
    /\ client.settings = client.over

\* No global file and no override: the construction has failed.
C5_WitnessNoSettings ==
    /\ client.state = "failed"
    /\ ~client.globalExists
    /\ client.input.kind = "none"

\* The construction got as far as the merged settings.
EarlyFailures == {"No settings given", "IOError"}

ReachedAuthSelection ==
    /\ client.state # "none"
    /\ client.raised \notin EarlyFailures

KnownAuthTypes == {"basic", "oauth"}

HasAuthType(m) == "auth" \in m.has /\ "type" \in KeysOf(m.auth)

\* C6: when the merged settings have no auth.type, or one other than basic
\* and oauth, the construction fails with no Authenticator and no request;
\* when auth.type is basic or oauth the Authenticator of that name is built.
C6_AuthTypeDecides ==
    ReachedAuthSelection =>
        IF HasAuthType(client.settings)
           /\ Get(client.settings.auth, "type") \in KnownAuthTypes
        THEN /\ client.state = "constructed"
             /\ client.auth = Get(client.settings.auth, "type")
        ELSE /\ client.state = "failed"
             /\ client.raised # ""
             /\ client.auth = "none"
             /\ calls = <<>>

\* A construction rejected for an auth.type that is neither basic nor oauth.
C6_Witness ==
    /\ client.state = "failed"
    /\ HasAuthType(client.settings)
    /\ Get(client.settings.auth, "type") = "digest"

----------------------------------------------------------------------------
(* Claims about the Client's operations, checked under Spec *)

\* The calls of send_request made by invocation n, in order.
CallsOf(n) == SelectSeq(calls, LAMBDA c : c.op = n)

Uploads == {n \in DOMAIN ops : ops[n].method = "upload_file"}

UploadRequestKeys == {"file_name", "file_type"}

\* C2: an upload_file whose two phases succeed made exactly two calls: an
\* authenticated POST to the upload-request endpoint carrying file_name and
\* file_type, then a POST with skip_auth to the upload_url of the first
\* call's response, with that response's data as body and the file stream
\* attached as 'file'; whichever Authenticator the client holds.
C2_UploadTwoCalls ==
    \A n \in Uploads :
        ops[n].outcome = "returned" =>
            LET cs == CallsOf(n)
            IN  /\ Len(cs) = 2
                /\ cs[1].req.url = UPLOAD_URL
                /\ cs[1].req.method = "POST"
                /\ ~cs[1].req.skip_auth
                /\ cs[1].req.data.type = "dict"
                /\ KeysOf(cs[1].req.data.fields) = UploadRequestKeys
                /\ cs[1].req.files = {}
                /\ cs[1].raised = ""
                /\ cs[2].req.url = cs[1].resp.upload_url
                /\ cs[2].req.method = "POST"
                /\ cs[2].req.skip_auth
                /\ cs[2].req.data = DictData(cs[1].resp.data)
                /\ cs[2].req.files = {<<"file", ops[n].stream>>}
                /\ cs[2].raised = ""
                /\ ops[n].value = ReturnsResp(cs[1].resp)

\* An upload that succeeded on a client holding the OAuth authenticator.
C2_Witness ==
    /\ client.auth = "oauth"
    /\ \E n \in Uploads : ops[n].outcome = "returned" /\ ops[n].opened

\* C3: when the upload-request call of upload_file fails, it is the only
\* call made: nothing is sent with skip_auth, no request carries the file
\* stream, and the caller gets the failure, not a ticket.
C3_PhaseAFailureAborts ==
    \A n \in Uploads :
        LET cs == CallsOf(n)
        IN  (Len(cs) >= 1 /\ cs[1].raised # "") =>
                /\ Len(cs) = 1
                /\ cs[1].req.url = UPLOAD_URL
                /\ \A i \in DOMAIN cs : ~cs[i].req.skip_auth /\ cs[i].req.files = {}
                /\ ops[n].outcome = "raised"
                /\ ops[n].raised = cs[1].raised
                /\ ops[n].value = ReturnsNone

\* An upload_file whose upload-request call failed.
C3_Witness ==
    \E n \in Uploads :
        /\ ops[n].raised = "RequestError"
        /\ Len(CallsOf(n)) = 1

\* C4: once upload_file is over, the stream it opened from a path is closed.
C4_LibraryStreamsClosed ==
    \A i \in DOMAIN streams :
        streams[i].owner = "library" => streams[i].state = "closed"

Pushes == {n \in DOMAIN ops : ops[n].method = "push"}

WithoutType(d) == {p \in d : p[1] # "type"}

\* The one call a push makes: a POST to the pushes URL with a dict payload
\* whose type is the push_type.
OnePushCall(n) ==
    LET cs == CallsOf(n)
    IN  /\ Len(cs) = 1
        /\ cs[1].req.url = PUSH_URL
        /\ cs[1].req.method = "POST"
        /\ cs[1].req.data.type = "dict"
        /\ "type" \in KeysOf(cs[1].req.data.fields)
        /\ Get(cs[1].req.data.fields, "type") = ops[n].arg

\* C7, as stated: a push makes one call, a POST to the pushes URL whose
\* payload has the push_type as type and, as its other fields, exactly the
\* keyword arguments given.
C7_PayloadIsKwargs ==
    \A n \in Pushes :
        /\ OnePushCall(n)
        /\ WithoutType(CallsOf(n)[1].req.data.fields) = ops[n].kwargs

\* C7, amended: a push makes one call, a POST to the pushes URL whose
\* payload has the push_type as type and, as its other fields, exactly the
\* keyword arguments given other than one named type: a keyword argument
\* named type is overwritten by the push_type.
C7_PayloadIsKwargsButType ==
    \A n \in Pushes :
        /\ OnePushCall(n)
        /\ WithoutType(CallsOf(n)[1].req.data.fields) = WithoutType(ops[n].kwargs)
        /\ Cardinality(KeysOf(CallsOf(n)[1].req.data.fields))
              = Cardinality(CallsOf(n)[1].req.data.fields)

\* A file push given a keyword argument named type, and a note push given
\* none.
C7_Witness ==
    \E n \in Pushes :
        /\ ops[n].arg = "file"
        /\ "type" \in KeysOf(ops[n].kwargs)
        /\ \E m \in Pushes : ops[m].arg = "note" /\ "type" \notin KeysOf(ops[m].kwargs)

\* C9: every method but upload_file makes exactly one call of send_request;
\* when it fails the method raises that failure; and no method, upload_file
\* included, returns after a call of its own failed.
C9_OneCallNoRecovery ==
    /\ \A n \in DOMAIN ops \ Uploads :
          LET cs == CallsOf(n)
          IN  /\ Len(cs) = 1
              /\ cs[1].raised # "" =>
                    (ops[n].outcome = "raised" /\ ops[n].raised = cs[1].raised)
    /\ \A n \in DOMAIN ops :
          ops[n].outcome = "returned" =>
              \A i \in DOMAIN CallsOf(n) : CallsOf(n)[i].raised = ""

\* A method whose call failed and that raised the failure, after a method
\* that returned.
C9_Witness ==
    \E n, m \in DOMAIN ops \ Uploads :
        /\ ops[n].raised = "RequestError"
        /\ ops[m].outcome = "returned"

ServiceUrls ==
    {DEVICE_URL, PUSH_URL, CONTACTS_URL, ME_URL, UPLOAD_URL}
    \cup {u \o "/" \o i : u \in {DEVICE_URL, PUSH_URL, CONTACTS_URL}, i \in Idens}

\* C10: a call made with skip_auth is the second call of an upload_file and
\* goes to the upload_url that the first call of the same invocation, the
\* upload request, returned; every call to a URL of the service is made with
\* authentication.
C10_SkipAuthOnlyPhaseB ==
    \A k \in DOMAIN calls :
        /\ calls[k].req.skip_auth =>
              LET cs == CallsOf(calls[k].op)
              IN  /\ calls[k].op \in Uploads
                  /\ Len(cs) = 2
                  /\ cs[2] = calls[k]
                  /\ cs[1].req.url = UPLOAD_URL
                  /\ cs[1].raised = ""
                  /\ calls[k].req.url = cs[1].resp.upload_url
        /\ calls[k].req.url \in ServiceUrls => ~calls[k].req.skip_auth

\* Two uploads with different tickets, each submitted to its own upload_url.
C10_Witness ==
    \E j, k \in DOMAIN calls :
        /\ calls[j].req.skip_auth /\ calls[k].req.skip_auth
        /\ calls[j].req.url # calls[k].req.url

----------------------------------------------------------------------------
(* Claims about the OAuth authenticator, checked under SpecOAuth *)

\* The HTTP exchanges of the n-th send_request.
ExchangesOf(n) == SubSeq(http, results[n].start, results[n].start + results[n].count - 1)

\* The exchanges from the first request on (after an initial token exchange).
FromRequest(n) ==
    LET es == ExchangesOf(n)
    IN  IF Len(es) >= 1 /\ es[1].kind = "exchange" THEN Tail(es) ELSE es

\* C8: a send_request whose request gets a 401 makes exactly one refresh
\* and, when the refresh succeeds, exactly one retry with the new token.  If
\* only the first request got a 401 the retry's result is the call's result;
\* if the retry gets a 401 too the call raises AuthenticationError with no
\* further refresh or retry.  No call makes more than one refresh and retry.
C8_OneRefreshOneRetry ==
    \A n \in DOMAIN results :
        LET es == FromRequest(n)
        IN  /\ Len(es) <= 3
            /\ Cardinality({i \in DOMAIN es : es[i].kind = "refresh"}) <= 1
            /\ Cardinality({i \in DOMAIN es : es[i].kind = "request"}) <= 2
            /\ (Len(es) >= 1 /\ es[1].kind = "request" /\ es[1].status = 401) =>
                  /\ Len(es) >= 2
                  /\ es[2].kind = "refresh"
                  /\ es[2].status = 200 =>
                        /\ Len(es) = 3
                        /\ es[3].kind = "request"
                        /\ es[3].url = es[1].url
                        /\ es[3].bearer # es[1].bearer
                        /\ n = Len(results) => es[3].bearer = token
                        /\ es[3].status = 401 =>
                              results[n].raised = "AuthenticationError"
                        /\ es[3].status = 200 => results[n].raised = ""
                  /\ es[2].status # 200 =>
                        (Len(es) = 2 /\ results[n].raised = "AuthenticationError")

\* A call whose request and whose retry both got a 401, after a call that
\* got a 401 once and succeeded on the retry.
C8_Witness ==
    /\ Len(results) = 2
    /\ Len(FromRequest(1)) = 3 /\ FromRequest(1)[1].status = 401
    /\ FromRequest(1)[3].status = 200 /\ results[1].raised = ""
    /\ Len(FromRequest(2)) = 3 /\ FromRequest(2)[1].status = 401
    /\ FromRequest(2)[3].status = 401

====
